---- MODULE Spec2Model ----
(***************************************************************************)
(* Model of AudioRecorderPlugin (windows/runner/audio_recorder_plugin.cpp) *)
(* The control thread calls StartRecording / StopRecording / IsRecording   *)
(* and the destructor; RecordingThread runs on recording_thread_.  Every   *)
(* Media Foundation call of the worker is one step whose HRESULT is chosen *)
(* nondeterministically.                                                   *)
(***************************************************************************)
EXTENDS Integers, Sequences, FiniteSets, TLC

\* ---------------------------------------------------------------- bounds
MaxSessions == 2      \* StartRecording calls that pass the is_recording_ test
MaxSamples  == 2      \* samples ReadSample delivers in one session
LateCap     == 2      \* the counts in late saturate here

\* ---------------------------------------------------------------- values
Paths   == {"", "a.m4a", "b.m4a"}
NULL    == "null"
PTR     == "ptr"
Callers == {1, 2}
NoPath  == "<no path>"   \* startRecording without a string "path" argument

VARIABLES
  current_file_path,   \* std::string current_file_path_
  is_recording,        \* std::atomic<bool> is_recording_
  stop_requested,      \* std::atomic<bool> stop_requested_
  joinable,            \* recording_thread_.joinable()
  source_reader,       \* IMFSourceReader* source_reader_
  sink_writer,         \* IMFSinkWriter* sink_writer_
  wpc,                 \* position of RecordingThread
  pSample,             \* the loop's local IMFSample* (TRUE: a sample is held)
  ctl,                 \* position of the control thread
  ret,                 \* what the last completed control call returned
  aborted,             \* std::terminate was called
  threadsCreated,      \* std::thread objects constructed with a thread
  srcOpens, srcReleases, sinkOpens, sinkReleases,  \* open/Release counts
  sessions,            \* StartRecording calls that passed the test
  log,                 \* source/sink calls of the current session, in order
  begun,               \* BeginWriting succeeded in the current session
  setupFailed,         \* a setup step of the current session failed
  loopExit,            \* why the read/write loop of the session ended
  late,                \* ReadSample calls begun / WriteSample calls made by
                       \* the session while stop_requested_ was set
  racer,               \* positions of two concurrent StartRecording callers
  win                  \* the FlutterWindow object and its native window

progVars == <<current_file_path, is_recording, stop_requested, joinable,
              source_reader, sink_writer, wpc, pSample, aborted>>
countVars == <<threadsCreated, srcOpens, srcReleases, sinkOpens, sinkReleases>>
ghostVars == <<sessions, log, begun, setupFailed, loopExit, late>>
vars == <<progVars, countVars, ghostVars, ctl, ret, racer, win>>

NoRet == [op |-> "none", arg |-> "", bval |-> FALSE, sval |-> ""]

InitRecorder ==
  /\ current_file_path = ""
  /\ is_recording = FALSE
  /\ stop_requested = FALSE
  /\ joinable = FALSE
  /\ source_reader = NULL
  /\ sink_writer = NULL
  /\ wpc = "none"
  /\ pSample = FALSE
  /\ ctl = "idle"
  /\ ret = NoRet
  /\ aborted = FALSE
  /\ threadsCreated = 0
  /\ srcOpens = 0 /\ srcReleases = 0 /\ sinkOpens = 0 /\ sinkReleases = 0
  /\ sessions = 0
  /\ log = <<>>
  /\ begun = FALSE
  /\ setupFailed = FALSE
  /\ loopExit = "none"
  /\ late = [reads |-> 0, writes |-> 0]

\* ---------------------------------------------------------- FlutterWindow
\* Window styles are sets of the WS_ / WS_EX_ bits that the code touches.
WS_OVERLAPPEDWINDOW ==
  {"WS_CAPTION", "WS_SYSMENU", "WS_THICKFRAME", "WS_MINIMIZEBOX", "WS_MAXIMIZEBOX"}

VisibleWidth == 85      \* const int visibleWidth
Widths  == {60, 300}    \* client widths of the window
MouseXs == {0, 50, 214, 215}   \* client x of the cursor

\* A FlutterWindow whose native window exists: the members' initializers, a
\* top-level window's style, no timer message queued, the mouse somewhere.
WinInit ==
  [click_through_enabled |-> FALSE,
   mouse_poll_timer      |-> 0,
   is_transparent        |-> FALSE,
   style                 |-> WS_OVERLAPPEDWINDOW,
   exStyle               |-> {},
   pendingTick           |-> FALSE,
   mouse                 |-> [inWindow |-> FALSE, x |-> 0, width |-> 300]]

Init == InitRecorder /\ racer = [c \in Callers |-> "off"] /\ win = WinInit

\* ------------------------------------------------------- control thread

\* recording_thread_ = std::thread(&RecordingThread, this): the new thread is
\* constructed first; move-assigning onto a joinable std::thread calls
\* std::terminate.  sessions, log, begun, setupFailed and loopExit restart.
LaunchThread ==
  /\ threadsCreated' = threadsCreated + 1
  /\ sessions' = sessions + 1
  /\ IF joinable
       THEN /\ aborted' = TRUE
            /\ UNCHANGED <<joinable, wpc, pSample, log, begun, setupFailed, loopExit,
                           late>>
       ELSE /\ joinable' = TRUE
            /\ wpc' = "attrs"
            /\ pSample' = FALSE
            /\ log' = <<>>
            /\ begun' = FALSE
            /\ setupFailed' = FALSE
            /\ loopExit' = "none"
            /\ late' = [reads |-> 0, writes |-> 0]
            /\ UNCHANGED aborted

\* A StartRecording that leaves stop_requested_ as the last session left it.
ClaimSlot_NoReset(path) ==
  /\ current_file_path' = path
  /\ stop_requested' = stop_requested
  /\ is_recording' = TRUE
  /\ LaunchThread
  /\ ret' = IF joinable THEN ret
            ELSE [op |-> "start", arg |-> path, bval |-> TRUE, sval |-> ""]
  /\ UNCHANGED <<source_reader, sink_writer,
                 srcOpens, srcReleases, sinkOpens, sinkReleases>>

\* StartRecording after the test of is_recording_: the three stores, the
\* thread, return true.
ClaimSlot(path) ==
  /\ current_file_path' = path
  /\ stop_requested' = FALSE
  /\ is_recording' = TRUE
  /\ LaunchThread
  /\ ret' = IF joinable THEN ret
            ELSE [op |-> "start", arg |-> path, bval |-> TRUE, sval |-> ""]
  /\ UNCHANGED <<source_reader, sink_writer,
                 srcOpens, srcReleases, sinkOpens, sinkReleases>>

\* A StartRecording that skips the test of is_recording_.
StartRecording_NoTest(path) ==
  /\ ctl = "idle" /\ ~aborted
  /\ sessions < MaxSessions
  /\ ClaimSlot(path)
  /\ UNCHANGED <<ctl, racer, win>>

StartRecording(path) ==
  /\ ctl = "idle" /\ ~aborted
  /\ IF is_recording
       THEN /\ ret' = [op |-> "start", arg |-> path, bval |-> FALSE, sval |-> ""]
            /\ UNCHANGED <<progVars, countVars, ghostVars>>
       ELSE /\ sessions < MaxSessions
            /\ ClaimSlot(path)
  /\ UNCHANGED <<ctl, racer, win>>

\* A StopRecording that stores stop_requested_ before it tests is_recording_.
StopRecording_StoreFirst ==
  /\ ctl = "idle" /\ ~aborted
  /\ stop_requested' = TRUE
  /\ IF ~is_recording
       THEN /\ ret' = [op |-> "stop", arg |-> "", bval |-> FALSE, sval |-> ""]
            /\ UNCHANGED ctl
       ELSE /\ ctl' = "stop_join"
            /\ UNCHANGED ret
  /\ UNCHANGED <<current_file_path, is_recording, joinable, source_reader,
                 sink_writer, wpc, pSample, aborted>>
  /\ UNCHANGED <<countVars, ghostVars, racer, win>>

\* StopRecording up to the join: the test of is_recording_ and the store to
\* stop_requested_.
StopRecording ==
  /\ ctl = "idle" /\ ~aborted
  /\ IF ~is_recording
       THEN /\ ret' = [op |-> "stop", arg |-> "", bval |-> FALSE, sval |-> ""]
            /\ UNCHANGED <<progVars, ctl>>
       ELSE /\ stop_requested' = TRUE
            /\ ctl' = "stop_join"
            /\ UNCHANGED <<current_file_path, is_recording, joinable, source_reader,
                           sink_writer, wpc, pSample, aborted, ret>>
  /\ UNCHANGED <<countVars, ghostVars, racer, win>>

\* A StopRecording that does not wait for the thread before it clears the
\* flag and the path.
StopRecordingJoin_NoWait ==
  /\ ctl = "stop_join" /\ ~aborted
  /\ joinable' = FALSE
  /\ is_recording' = FALSE
  /\ current_file_path' = ""
  /\ ret' = [op |-> "stop", arg |-> "", bval |-> FALSE, sval |-> current_file_path]
  /\ ctl' = "idle"
  /\ UNCHANGED <<stop_requested, source_reader, sink_writer, wpc, pSample, aborted,
                 countVars, ghostVars, racer, win>>

\* StopRecording from the join on: join() returns once the thread function
\* has returned.
StopRecordingJoin ==
  /\ ctl = "stop_join" /\ ~aborted
  /\ joinable => wpc = "done"
  /\ joinable' = FALSE
  /\ is_recording' = FALSE
  /\ current_file_path' = ""
  /\ ret' = [op |-> "stop", arg |-> "", bval |-> FALSE, sval |-> current_file_path]
  /\ ctl' = "idle"
  /\ UNCHANGED <<stop_requested, source_reader, sink_writer, wpc, pSample, aborted,
                 countVars, ghostVars, racer, win>>

IsRecording ==
  /\ ctl = "idle" /\ ~aborted
  /\ ret' = [op |-> "isrec", arg |-> "", bval |-> is_recording, sval |-> ""]
  /\ UNCHANGED <<progVars, countVars, ghostVars, ctl, racer, win>>

\* HandleMethodCall("startRecording") whose arguments are not a map, have no
\* "path" entry, or whose "path" is not a string: StartRecording is not called.
HandleMethodCall_NoPath ==
  /\ ctl = "idle" /\ ~aborted
  /\ ret' = [op |-> "badargs", arg |-> NoPath, bval |-> FALSE, sval |-> ""]
  /\ UNCHANGED <<progVars, countVars, ghostVars, ctl, racer, win>>

Bool2Str(b) == IF b THEN "true" ELSE "false"

\* What HandleMethodCall hands to the MethodResult for the last call.
Reply ==
  CASE ret.op = "badargs" -> [kind |-> "error", val |-> "INVALID_ARGS"]
    [] ret.op = "start"   -> [kind |-> "success", val |-> Bool2Str(ret.bval)]
    [] ret.op = "stop"    -> IF ret.sval # ""
                               THEN [kind |-> "success", val |-> ret.sval]
                               ELSE [kind |-> "error", val |-> "NO_RECORDER"]
    [] ret.op = "isrec"   -> [kind |-> "success", val |-> Bool2Str(ret.bval)]
    [] OTHER              -> [kind |-> "none", val |-> ""]

\* The members are destroyed after the destructor's body: destroying a
\* joinable std::thread calls std::terminate.
DestroyMembers ==
  IF joinable' THEN aborted' = TRUE /\ ctl' = ctl
               ELSE aborted' = aborted /\ ctl' = "destroyed"

Destructor ==
  /\ ctl = "idle" /\ ~aborted
  /\ IF is_recording
       THEN /\ stop_requested' = TRUE
            /\ ctl' = "dtor_join"
            /\ UNCHANGED <<joinable, aborted>>
       ELSE /\ UNCHANGED <<stop_requested, joinable>>
            /\ DestroyMembers
  /\ UNCHANGED <<current_file_path, is_recording, source_reader, sink_writer, wpc,
                 pSample, ret, countVars, ghostVars, racer, win>>

DestructorJoin ==
  /\ ctl = "dtor_join" /\ ~aborted
  /\ joinable => wpc = "done"
  /\ joinable' = FALSE
  /\ DestroyMembers
  /\ UNCHANGED <<current_file_path, is_recording, stop_requested, source_reader,
                 sink_writer, wpc, pSample, ret, countVars, ghostVars, racer, win>>

\* ------------------------------------------------------- RecordingThread

ctlSide == <<current_file_path, stop_requested, joinable, aborted, ctl, ret,
             threadsCreated, sessions, racer, win>>

\* A failure branch that clears is_recording_ first and leaves the releases
\* to the epilogue of the thread function.
SetupFails_StoreFirst(relSink, relSrc) ==
  /\ UNCHANGED <<sink_writer, sinkReleases, source_reader, srcReleases>>
  /\ is_recording' = FALSE
  /\ setupFailed' = TRUE
  /\ wpc' = IF relSink \/ relSrc THEN "finalize" ELSE "done"

\* A failure branch of the setup: Release what was acquired (sink first,
\* then source), null the members, is_recording_ = false, return.
SetupFails(relSink, relSrc) ==
  /\ sink_writer' = IF relSink THEN NULL ELSE sink_writer
  /\ sinkReleases' = IF relSink THEN sinkReleases + 1 ELSE sinkReleases
  /\ source_reader' = IF relSrc THEN NULL ELSE source_reader
  /\ srcReleases' = IF relSrc THEN srcReleases + 1 ELSE srcReleases
  /\ is_recording' = FALSE
  /\ setupFailed' = TRUE
  /\ wpc' = "done"

\* A setup step that succeeded and touched neither member.
SetupGoes(next) ==
  /\ wpc' = next
  /\ UNCHANGED <<is_recording, source_reader, sink_writer, srcReleases,
                 sinkReleases, setupFailed>>

W_CreateAttributes ==
  /\ wpc = "attrs" /\ ~aborted
  /\ \E ok \in BOOLEAN :
       IF ok THEN SetupGoes("setguid") ELSE SetupFails(FALSE, FALSE)
  /\ UNCHANGED <<ctlSide, pSample, late, srcOpens, sinkOpens, log, begun, loopExit>>

W_SetDeviceType ==
  /\ wpc = "setguid" /\ ~aborted
  /\ \E ok \in BOOLEAN :
       IF ok THEN SetupGoes("enum") ELSE SetupFails(FALSE, FALSE)
  /\ UNCHANGED <<ctlSide, pSample, late, srcOpens, sinkOpens, log, begun, loopExit>>

\* MFEnumDeviceSources: "ok" (at least one device), "fail", "zero".
W_EnumDevices ==
  /\ wpc = "enum" /\ ~aborted
  /\ log' = Append(log, "EnumDevices")
  /\ \E r \in {"ok", "fail", "zero"} :
       IF r = "ok" THEN SetupGoes("activate") ELSE SetupFails(FALSE, FALSE)
  /\ UNCHANGED <<ctlSide, pSample, late, srcOpens, sinkOpens, begun, loopExit>>

W_ActivateDevice ==
  /\ wpc = "activate" /\ ~aborted
  /\ log' = Append(log, "ActivateObject")
  /\ \E ok \in BOOLEAN :
       IF ok THEN SetupGoes("reader") ELSE SetupFails(FALSE, FALSE)
  /\ UNCHANGED <<ctlSide, pSample, late, srcOpens, sinkOpens, begun, loopExit>>

W_CreateSourceReader ==
  /\ wpc = "reader" /\ ~aborted
  /\ log' = Append(log, "CreateSourceReader")
  /\ \E ok \in BOOLEAN :
       IF ok
         THEN /\ source_reader' = PTR
              /\ srcOpens' = srcOpens + 1
              /\ wpc' = "pcm"
              /\ UNCHANGED <<is_recording, sink_writer, srcReleases, sinkReleases,
                             setupFailed>>
         ELSE /\ SetupFails(FALSE, FALSE)
              /\ UNCHANGED srcOpens
  /\ UNCHANGED <<ctlSide, pSample, late, sinkOpens, begun, loopExit>>

\* MFCreateMediaType, the two SetGUID calls and SetCurrentMediaType.
W_ConfigurePCM ==
  /\ wpc = "pcm" /\ ~aborted
  /\ log' = Append(log, "SetCurrentMediaType")
  /\ \E ok \in BOOLEAN :
       IF ok THEN SetupGoes("gettype") ELSE SetupFails(FALSE, TRUE)
  /\ UNCHANGED <<ctlSide, pSample, late, srcOpens, sinkOpens, begun, loopExit>>

W_GetCurrentMediaType ==
  /\ wpc = "gettype" /\ ~aborted
  /\ \E ok \in BOOLEAN :
       IF ok THEN SetupGoes("sink") ELSE SetupFails(FALSE, TRUE)
  /\ UNCHANGED <<ctlSide, pSample, late, srcOpens, sinkOpens, log, begun, loopExit>>

\* A sink creation whose failure branch lacks the return.
W_CreateSinkWriter_NoReturn ==
  /\ wpc = "sink" /\ ~aborted
  /\ log' = Append(log, "CreateSinkWriter")
  /\ \E ok \in BOOLEAN :
       IF ok
         THEN /\ sink_writer' = PTR
              /\ sinkOpens' = sinkOpens + 1
              /\ wpc' = "addstream"
              /\ UNCHANGED <<is_recording, source_reader, srcReleases, sinkReleases,
                             setupFailed>>
         ELSE /\ source_reader' = NULL
              /\ srcReleases' = srcReleases + 1
              /\ is_recording' = FALSE
              /\ setupFailed' = TRUE
              /\ wpc' = "addstream"
              /\ UNCHANGED <<sink_writer, sinkReleases, sinkOpens>>
  /\ UNCHANGED <<ctlSide, pSample, late, srcOpens, begun, loopExit>>

W_CreateSinkWriter ==
  /\ wpc = "sink" /\ ~aborted
  /\ log' = Append(log, "CreateSinkWriter")
  /\ \E ok \in BOOLEAN :
       IF ok
         THEN /\ sink_writer' = PTR
              /\ sinkOpens' = sinkOpens + 1
              /\ wpc' = "addstream"
              /\ UNCHANGED <<is_recording, source_reader, srcReleases, sinkReleases,
                             setupFailed>>
         ELSE /\ SetupFails(FALSE, TRUE)
              /\ UNCHANGED sinkOpens
  /\ UNCHANGED <<ctlSide, pSample, late, srcOpens, begun, loopExit>>

\* The AAC output type and AddStream: "ok", "fail" (AddStream failed),
\* "notype" (building the output type failed, AddStream is not called).
W_AddStream ==
  /\ wpc = "addstream" /\ ~aborted
  /\ \E r \in {"ok", "fail", "notype"} :
       /\ log' = IF r = "notype" THEN log ELSE Append(log, "AddStream")
       /\ IF r = "ok" THEN SetupGoes("setinput") ELSE SetupFails(TRUE, TRUE)
  /\ UNCHANGED <<ctlSide, pSample, late, srcOpens, sinkOpens, begun, loopExit>>

W_SetInputMediaType ==
  /\ wpc = "setinput" /\ ~aborted
  /\ log' = Append(log, "SetInputMediaType")
  /\ \E ok \in BOOLEAN :
       IF ok THEN SetupGoes("begin") ELSE SetupFails(TRUE, TRUE)
  /\ UNCHANGED <<ctlSide, pSample, late, srcOpens, sinkOpens, begun, loopExit>>

W_BeginWriting ==
  /\ wpc = "begin" /\ ~aborted
  /\ log' = Append(log, "BeginWriting")
  /\ \E ok \in BOOLEAN :
       IF ok THEN SetupGoes("loop") /\ begun' = TRUE
             ELSE SetupFails(TRUE, TRUE) /\ begun' = begun
  /\ UNCHANGED <<ctlSide, pSample, late, srcOpens, sinkOpens, loopExit>>

loopFrame == <<ctlSide, is_recording, source_reader, sink_writer, countVars,
               begun, setupFailed>>

Written == Len(SelectSeq(log, LAMBDA e : e = "WriteSample"))

Bump(n) == IF n < LateCap THEN n + 1 ELSE n

\* A loop that never looks at stop_requested_.
W_LoopCheck_IgnoreStop ==
  /\ wpc = "loop" /\ ~aborted
  /\ wpc' = "read" /\ loopExit' = loopExit
  /\ UNCHANGED <<loopFrame, pSample, log, late>>

\* A loop that resets stop_requested_ once it has seen it.
W_LoopCheck_ClearsStop ==
  /\ wpc = "loop" /\ ~aborted
  /\ IF stop_requested
       THEN wpc' = "finalize" /\ loopExit' = "stop" /\ stop_requested' = FALSE
       ELSE wpc' = "read" /\ loopExit' = loopExit /\ stop_requested' = stop_requested
  /\ UNCHANGED <<current_file_path, joinable, aborted, ctl, ret, threadsCreated,
                 sessions, racer, win, is_recording, source_reader, sink_writer,
                 countVars, begun, setupFailed, pSample, log, late>>

\* while (!stop_requested_)
W_LoopCheck ==
  /\ wpc = "loop" /\ ~aborted
  /\ IF stop_requested
       THEN wpc' = "finalize" /\ loopExit' = "stop"
       ELSE wpc' = "read" /\ loopExit' = loopExit
  /\ UNCHANGED <<loopFrame, pSample, log, late>>

\* source_reader_->ReadSample is entered; it blocks until a result is ready.
W_ReadSampleCall ==
  /\ wpc = "read" /\ ~aborted
  /\ wpc' = "reading"
  /\ late' = IF stop_requested
              THEN [late EXCEPT !.reads = Bump(late.reads)]
              ELSE late
  /\ UNCHANGED <<loopFrame, pSample, log, loopExit>>

\* ReadSample returns, and the tests that follow it: "fail"; "eos" (end of
\* stream, no sample); "eos_sample" (end of stream flagged on a read that also
\* hands over a sample); "sample"; "nosample" (S_OK with a null sample, e.g. a
\* stream tick).  A sample handed over without the end-of-stream flag is
\* logged.
W_ReadSampleReturn ==
  /\ wpc = "reading" /\ ~aborted
  /\ \E r \in {"fail", "eos", "eos_sample", "sample", "nosample"} :
       /\ r = "sample" => Written < MaxSamples
       /\ log' = IF r = "sample" THEN Append(log, "Sample") ELSE log
       /\ CASE r = "fail"       -> wpc' = "finalize" /\ loopExit' = "readfail"
                                   /\ pSample' = FALSE
            [] r = "eos"        -> wpc' = "finalize" /\ loopExit' = "eos"
                                   /\ pSample' = FALSE
            [] r = "eos_sample" -> wpc' = "finalize" /\ loopExit' = "eos"
                                   /\ pSample' = TRUE
            [] r = "sample"     -> wpc' = "write" /\ loopExit' = loopExit
                                   /\ pSample' = TRUE
            [] r = "nosample"   -> wpc' = "loop" /\ loopExit' = loopExit
                                   /\ pSample' = FALSE
  /\ UNCHANGED <<loopFrame, late>>

\* A loop body that drops the sample when a stop has been requested.
W_WriteSample_DropOnStop ==
  /\ wpc = "write" /\ ~aborted
  /\ pSample' = FALSE
  /\ IF stop_requested
       THEN /\ wpc' = "loop" /\ UNCHANGED <<log, loopExit, late>>
       ELSE /\ log' = Append(log, "WriteSample")
            /\ late' = late
            /\ \E ok \in BOOLEAN :
                 IF ok THEN wpc' = "loop" /\ loopExit' = loopExit
                       ELSE wpc' = "finalize" /\ loopExit' = "writefail"
  /\ UNCHANGED loopFrame

\* sink_writer_->WriteSample, pSample->Release(), the test of hr.
W_WriteSample ==
  /\ wpc = "write" /\ ~aborted
  /\ log' = Append(log, "WriteSample")
  /\ pSample' = FALSE
  /\ late' = IF stop_requested
              THEN [late EXCEPT !.writes = Bump(late.writes)]
              ELSE late
  /\ \E ok \in BOOLEAN :
       IF ok THEN wpc' = "loop" /\ loopExit' = loopExit
             ELSE wpc' = "finalize" /\ loopExit' = "writefail"
  /\ UNCHANGED loopFrame

\* An epilogue that finalizes only when the loop ended without an error.
W_Finalize_SkipOnError ==
  /\ wpc = "finalize" /\ ~aborted
  /\ IF sink_writer # NULL
       THEN /\ log' = IF loopExit \in {"readfail", "writefail"}
                        THEN Append(log, "ReleaseSink")
                        ELSE log \o <<"Finalize", "ReleaseSink">>
            /\ sinkReleases' = sinkReleases + 1
            /\ sink_writer' = NULL
       ELSE UNCHANGED <<log, sinkReleases, sink_writer>>
  /\ wpc' = "relsrc"
  /\ UNCHANGED <<ctlSide, is_recording, source_reader, pSample, late, srcOpens,
                 srcReleases, sinkOpens, begun, setupFailed, loopExit>>

\* if (sink_writer_) { Finalize(); Release(); sink_writer_ = nullptr; }
W_Finalize ==
  /\ wpc = "finalize" /\ ~aborted
  /\ IF sink_writer # NULL
       THEN /\ log' = log \o <<"Finalize", "ReleaseSink">>
            /\ sinkReleases' = sinkReleases + 1
            /\ sink_writer' = NULL
       ELSE UNCHANGED <<log, sinkReleases, sink_writer>>
  /\ wpc' = "relsrc"
  /\ UNCHANGED <<ctlSide, is_recording, source_reader, pSample, late, srcOpens,
                 srcReleases, sinkOpens, begun, setupFailed, loopExit>>

\* A thread epilogue that forgets the source reader.
W_ReleaseSource_Skip ==
  /\ wpc = "relsrc" /\ ~aborted
  /\ wpc' = "done"
  /\ UNCHANGED <<log, srcReleases, source_reader>>
  /\ UNCHANGED <<ctlSide, is_recording, sink_writer, pSample, late, srcOpens,
                 sinkOpens, sinkReleases, begun, setupFailed, loopExit>>

\* if (source_reader_) { Release(); source_reader_ = nullptr; } and return.
W_ReleaseSource ==
  /\ wpc = "relsrc" /\ ~aborted
  /\ IF source_reader # NULL
       THEN /\ log' = Append(log, "ReleaseSource")
            /\ srcReleases' = srcReleases + 1
            /\ source_reader' = NULL
       ELSE UNCHANGED <<log, srcReleases, source_reader>>
  /\ wpc' = "done"
  /\ UNCHANGED <<ctlSide, is_recording, sink_writer, pSample, late, srcOpens,
                 sinkOpens, sinkReleases, begun, setupFailed, loopExit>>

RecordingThread ==
  \/ W_CreateAttributes \/ W_SetDeviceType \/ W_EnumDevices
  \/ W_ActivateDevice \/ W_CreateSourceReader \/ W_ConfigurePCM
  \/ W_GetCurrentMediaType \/ W_CreateSinkWriter \/ W_AddStream
  \/ W_SetInputMediaType \/ W_BeginWriting \/ W_LoopCheck
  \/ W_ReadSampleCall \/ W_ReadSampleReturn \/ W_WriteSample
  \/ W_Finalize \/ W_ReleaseSource

Control ==
  \/ \E path \in Paths : StartRecording(path)
  \/ StopRecording
  \/ StopRecordingJoin
  \/ IsRecording
  \/ HandleMethodCall_NoPath
  \/ Destructor
  \/ DestructorJoin

Next == Control \/ RecordingThread

Spec == Init /\ [][Next]_vars

\* The worker thread is scheduled, every ReadSample returns, and a join
\* whose thread has finished returns.
FairSpec ==
  Spec /\ WF_vars(RecordingThread) /\ WF_vars(StopRecordingJoin)
       /\ WF_vars(DestructorJoin)

\* ------------------------------------------- two callers of StartRecording
\* StartRecording entered by two threads at once: the load of is_recording_
\* and the stores that follow it are separate atomic operations.

InitRace == InitRecorder /\ racer = [c \in Callers |-> "call"] /\ win = WinInit

\* if (is_recording_) return false;
Race_Test(c) ==
  /\ racer[c] = "call" /\ ~aborted
  /\ racer' = [racer EXCEPT ![c] = IF is_recording THEN "ret_false" ELSE "passed"]
  /\ ret' = IF is_recording
              THEN [op |-> "start", arg |-> "", bval |-> FALSE, sval |-> ""]
              ELSE ret
  /\ UNCHANGED <<progVars, countVars, ghostVars, ctl, win>>

Race_Claim(c) ==
  /\ racer[c] = "passed" /\ ~aborted
  /\ \E path \in Paths : ClaimSlot(path)
  /\ racer' = [racer EXCEPT ![c] = IF joinable THEN "terminated" ELSE "ret_true"]
  /\ UNCHANGED <<ctl, win>>

NextRace ==
  \/ \E c \in Callers : Race_Test(c)
  \/ \E c \in Callers : Race_Claim(c)
  \/ RecordingThread

SpecRace == InitRace /\ [][NextRace]_vars

\* ------------------------------------------------------------ properties

Idle == ~is_recording
Finalized == \E i \in 1..Len(log) : log[i] = "Finalize"
OwnExit == loopExit \in {"eos", "readfail", "writefail"}

\* C1: StartRecording returns false whenever a setup step of that session
\* fails; it returns true only for a session whose setup succeeded.
C1_StartFalseWhenSetupFails ==
  (ret.op = "start" /\ setupFailed) => ret.bval = FALSE

\* C2: no sequence of calls and destruction makes the process abort:
\* std::terminate is never reached through recording_thread_.
C2_NeverAborts == ~aborted

\* C3: when the worker has left the loop on its own (end of stream, read or
\* write failure) and returned, with no stop requested, the session is Idle.
C3_OwnExitReachesIdle ==
  (wpc = "done" /\ OwnExit /\ ~stop_requested) => Idle

\* C4: a non-empty path returned by StopRecording belongs to a session whose
\* sink had begun writing and was finalized before the return.
C4_PathImpliesFinalized ==
  (ret.op = "stop" /\ ret.sval # "") => (begun /\ Finalized)

\* C5: StartRecording while is_recording_ is set returns false and changes
\* nothing of the recorder: path, flags, thread, worker, handles, counts.
C5_StartWhileActiveIsNoOp ==
  [][\A p \in Paths :
       (is_recording /\ StartRecording(p)) =>
         /\ ret'.op = "start" /\ ret'.bval = FALSE
         /\ UNCHANGED <<progVars, countVars, ghostVars, ctl>>]_vars

C5_Witness ==
  /\ ret.op = "start" /\ ret.bval = FALSE
  /\ is_recording /\ wpc = "reading" /\ threadsCreated = 1

\* C6: two racing StartRecording calls never both pass the test of
\* is_recording_ before one of them has set it.
C6_SlotClaimedAtomically ==
  Cardinality({c \in Callers : racer[c] = "passed"}) <= 1

\* C7: StartRecording(p) accepted with non-empty p and followed at once by
\* StopRecording: the stop returns p, is_recording_ is false, the path cleared.
C7_StartThenStopReturnsPath ==
  [][(ret.op = "start" /\ ret.bval /\ ret.arg # "" /\ ret'.op = "stop") =>
       (ret'.sval = ret.arg /\ ~is_recording' /\ current_file_path' = "")]_vars

\* C8: after StopRecording has returned (a path or the empty string) both
\* handles are null and every open has its release.
C8_NoHandleAfterStop ==
  ret.op = "stop" =>
    /\ source_reader = NULL /\ sink_writer = NULL
    /\ srcOpens = srcReleases /\ sinkOpens = sinkReleases

C8_Witness ==
  /\ ret.op = "stop" /\ ret.sval # ""
  /\ srcOpens > 0 /\ sinkOpens > 0

\* C9: StopRecording while is_recording_ is false returns the empty string
\* and changes nothing: no flag, no join, path, thread and handles as before.
C9_StopWhileIdleIsNoOp ==
  [][(Idle /\ StopRecording) =>
       /\ ret'.op = "stop" /\ ret'.sval = ""
       /\ UNCHANGED <<progVars, countVars, ghostVars, ctl>>]_vars

C9_Witness ==
  ret.op = "stop" /\ ret.sval = "" /\ Idle /\ joinable /\ ~stop_requested

\* C10: with the worker scheduled and every ReadSample returning, a
\* StopRecording that is waiting in join eventually returns, with the worker
\* exited and is_recording_ false.
C10_StopReturns ==
  (ctl = "stop_join") ~>
     (ctl = "idle" /\ ret.op = "stop" /\ wpc = "done" /\ Idle)

C10_Witness == ctl = "stop_join" /\ wpc = "reading" /\ begun

\* C11: a startRecording call whose path is missing or empty is answered
\* with the error INVALID_ARGS (and so starts no session).
C11_EmptyPathRejected ==
  (ret.op \in {"start", "badargs"} /\ ret.arg \in {NoPath, ""}) =>
     Reply = [kind |-> "error", val |-> "INVALID_ARGS"]

\* C12: a stopRecording call that found the session active (it went through
\* the join) answers success with the session's path; only a call that found
\* no session answers NO_RECORDER.
C12_StopAnswer ==
  [][(ret' # ret /\ ret'.op = "stop") =>
       IF ctl = "stop_join"
         THEN Reply' = [kind |-> "success", val |-> current_file_path]
         ELSE Reply' = [kind |-> "error", val |-> "NO_RECORDER"]]_vars

\* C12 with the sessions of an empty path left out (not a claim: it shows
\* that the empty path is the only way C12 fails).
StopAnswerForNamedSessions ==
  [][(ret' # ret /\ ret'.op = "stop" /\ current_file_path # "") =>
       IF ctl = "stop_join"
         THEN Reply' = [kind |-> "success", val |-> current_file_path]
         ELSE Reply' = [kind |-> "error", val |-> "NO_RECORDER"]]_vars

\* ------------------------------------------------- the session's call log

Count(e) == Len(SelectSeq(log, LAMBDA x : x = e))
Pulled == Count("Sample")
Repeat(e, n) == [i \in 1..n |-> e]
IsPrefix(a, b) == Len(a) <= Len(b) /\ SubSeq(b, 1, Len(a)) = a

SinkOps == {"AddStream", "SetInputMediaType", "BeginWriting", "WriteSample",
            "Finalize"}
SinkCalls == SelectSeq(log, LAMBDA e : e \in SinkOps)

SetupOrder == <<"EnumDevices", "ActivateObject", "CreateSourceReader",
                "SetCurrentMediaType", "CreateSinkWriter", "AddStream",
                "SetInputMediaType", "BeginWriting">>
SetupCalls ==
  SelectSeq(log, LAMBDA e : \E i \in 1..Len(SetupOrder) : SetupOrder[i] = e)

InLoop == wpc \in {"loop", "read", "reading", "write"}
LoopLeft == wpc \in {"finalize", "relsrc", "done"} /\ ~setupFailed

\* C13: in a session whose BeginWriting succeeded the sink's calls are
\* AddStream, SetInputMediaType, BeginWriting, the WriteSample calls, then
\* Finalize, each of the others once; once the loop is left there is one
\* WriteSample per sample pulled without the end-of-stream flag; no
\* WriteSample happens in a session whose BeginWriting has not succeeded.
C13_SinkCallSequence ==
  /\ ~begun => Written = 0 /\ ~Finalized
  /\ begun =>
       /\ SinkCalls = <<"AddStream", "SetInputMediaType", "BeginWriting">>
                        \o Repeat("WriteSample", Written)
                        \o (IF Finalized THEN <<"Finalize">> ELSE <<>>)
       /\ LoopLeft => Written = Pulled
       /\ wpc = "done" => Finalized

C13_Witness ==
  wpc = "done" /\ begun /\ loopExit = "stop" /\ Pulled = 2 /\ Written = 2

\* C14: once BeginWriting has succeeded and the loop has ended, whatever
\* ended it, Finalize is called exactly once, before the sink and then the
\* source are released.
C14_FinalizeOnceBeforeRelease ==
  begun =>
    /\ Count("Finalize") <= 1
    /\ sink_writer = NULL => Finalized
    /\ source_reader = NULL => (Finalized /\ sink_writer = NULL)
    /\ wpc = "done" =>
         /\ Count("Finalize") = 1
         /\ SubSeq(log, Len(log) - 2, Len(log))
              = <<"Finalize", "ReleaseSink", "ReleaseSource">>

C14_Witness ==
  wpc = "done" /\ begun /\ loopExit = "writefail" /\ Finalized

\* C15: the setup calls happen in the fixed order; after a failed step the
\* thread function has returned, no later step and no loop iteration runs
\* (so a failed or empty enumeration never creates the sink); the loop is
\* entered only after all eight steps.
C15_SetupOrder ==
  /\ [](/\ IsPrefix(SetupCalls, SetupOrder)
        /\ setupFailed =>
             /\ wpc = "done" /\ ~begun /\ loopExit = "none"
             /\ log = SetupCalls /\ Len(log) < Len(SetupOrder) + 1
        /\ (InLoop \/ loopExit # "none") => (begun /\ SetupCalls = SetupOrder))
  /\ [][(setupFailed /\ setupFailed') =>
          (log' = log /\ sinkOpens' = sinkOpens /\ srcOpens' = srcOpens)]_vars

C15_Witness ==
  setupFailed /\ log = <<"EnumDevices">> /\ sinkOpens = 0 /\ wpc = "done"

\* C16: after a setup step has failed and no control call is in progress,
\* both handles are null, the session is inactive and recording_thread_ is
\* not joinable.
C16_NoPartialState ==
  (setupFailed /\ wpc = "done" /\ ctl = "idle") =>
     /\ source_reader = NULL /\ sink_writer = NULL
     /\ ~is_recording
     /\ ~joinable

\* C17: while stop_requested_ is set the worker begins at most one
\* ReadSample and makes at most one WriteSample; a ReadSample is begun only
\* after a loop test that read stop_requested_ as false.
C17_BoundedAfterStop ==
  /\ [](late.reads <= 1 /\ late.writes <= 1)
  /\ [][/\ (wpc' = "read" /\ wpc # "read") => (wpc = "loop" /\ ~stop_requested)
        /\ (wpc' = "reading" /\ wpc # "reading") => wpc = "read"]_vars

C17_Witness ==
  late.reads = 1 /\ late.writes = 1 /\ loopExit = "stop" /\ wpc = "done"

\* C18 as stated: only the worker writes is_recording_, only the control
\* thread writes stop_requested_.
C18_SingleWriter ==
  [][/\ is_recording' # is_recording => RecordingThread
     /\ stop_requested' # stop_requested => ~RecordingThread]_vars

\* C18 amended: the worker never writes stop_requested_ and only ever clears
\* is_recording_; is_recording_ is set only by StartRecording on the control
\* thread, which also clears it in StopRecording.
C18_FlagWriters ==
  [][/\ RecordingThread =>
          /\ stop_requested' = stop_requested
          /\ is_recording' # is_recording => ~is_recording'
     /\ stop_requested' # stop_requested => Control
     /\ (is_recording' /\ ~is_recording) => \E p \in Paths : StartRecording(p)
     /\ (is_recording /\ ~is_recording') => (RecordingThread \/ StopRecordingJoin)]_vars

C18_Witness ==
  setupFailed /\ ~is_recording /\ stop_requested /\ ctl = "stop_join"

\* C19: while is_recording_ is false the worker is not running (it has not
\* been started or has returned) and holds neither handle, so it makes no
\* access to the source reader or the sink writer.
C19_NoAccessWhenInactive ==
  ~is_recording =>
     /\ wpc \in {"none", "done"}
     /\ source_reader = NULL /\ sink_writer = NULL

C19_Witness ==
  ret.op = "isrec" /\ ~ret.bval /\ ~is_recording /\ wpc = "done" /\ sinkReleases > 0

\* C20: a sample is held only between the ReadSample that handed it over and
\* the WriteSample that follows; none is held at the next ReadSample nor
\* after the loop.
C20_SampleReleased == pSample => wpc = "write"

WorkerLive == wpc \notin {"none", "done"}
\* The worker has not yet read current_file_path_ (StringToWString, line 237).
PathUnread == wpc \in {"attrs", "setguid", "enum", "activate", "reader", "pcm",
                       "gettype", "sink"}

\* C21: a session's worker finds stop_requested_ set only while a
\* StopRecording or destructor issued after its StartRecording is waiting in
\* join; a StartRecording that follows a StopRecording which returned a path
\* is accepted and leaves stop_requested_ false.
C21_StopDoesNotLeak ==
  /\ []((stop_requested /\ WorkerLive) => ctl \in {"stop_join", "dtor_join"})
  /\ [][\A p \in Paths :
          (ret.op = "stop" /\ ret.sval # "" /\ StartRecording(p)) =>
             /\ ret'.op = "start" /\ ret'.bval
             /\ ~stop_requested' /\ ~aborted' /\ wpc' = "attrs"]_vars

C21_Witness ==
  /\ threadsCreated = 2 /\ ~aborted /\ wpc = "reading" /\ ~stop_requested
  /\ ret.op = "start" /\ ret.bval /\ ctl = "idle"

\* C22: the control thread writes current_file_path_ (StartRecording,
\* StopRecording after the join) only when no worker is running that has yet
\* to read it; a thread is launched only when no worker is running; only the
\* worker changes source_reader_ and sink_writer_.
C22_NoDataRace ==
  [][/\ ((\E p \in Paths : StartRecording(p) /\ ~is_recording)
           \/ StopRecordingJoin) => ~WorkerLive
     /\ current_file_path' # current_file_path => ~PathUnread
     /\ threadsCreated' # threadsCreated => ~WorkerLive
     /\ <<source_reader, sink_writer>>' # <<source_reader, sink_writer>>
          => RecordingThread]_vars

C22_Witness ==
  /\ ret.op = "stop" /\ ret.sval = "a.m4a" /\ current_file_path = ""
  /\ sinkOpens = 1 /\ wpc = "done"

\* ------------------------------------------------- FlutterWindow operations
\* GetHandle() is a valid HWND throughout.

recorderVars == <<progVars, countVars, ghostVars, ctl, ret, racer>>

SetClickThroughEnabled(enabled) ==
  /\ IF enabled
       THEN \E id \in {0, 1} :      \* what SetTimer returns: 0 when it fails
              win' = [win EXCEPT
                        !.click_through_enabled = TRUE,
                        !.mouse_poll_timer =
                            IF win.mouse_poll_timer = 0 THEN id
                            ELSE win.mouse_poll_timer,
                        !.exStyle = win.exStyle
                                      \cup {"WS_EX_LAYERED", "WS_EX_TRANSPARENT"},
                        !.is_transparent = TRUE]
       ELSE win' = [win EXCEPT
                      !.click_through_enabled = FALSE,
                      !.mouse_poll_timer = 0,
                      !.exStyle = (win.exStyle \cup {"WS_EX_LAYERED"})
                                    \ {"WS_EX_TRANSPARENT"},
                      !.is_transparent = FALSE]
  /\ UNCHANGED recorderVars

RestoreNormalWindowStyle ==
  /\ win' = [win EXCEPT
               !.style = win.style \cup WS_OVERLAPPEDWINDOW,
               !.exStyle = win.exStyle \ {"WS_EX_LAYERED", "WS_EX_TRANSPARENT"}]
  /\ UNCHANGED recorderVars

SetFrameless(frameless) ==
  /\ win' = [win EXCEPT !.style =
               IF frameless
                 THEN (win.style \ {"WS_CAPTION", "WS_THICKFRAME", "WS_MINIMIZEBOX",
                                    "WS_MAXIMIZEBOX", "WS_SYSMENU"})
                        \cup {"WS_POPUP"}
                 ELSE (win.style \ {"WS_POPUP"})
                        \cup {"WS_CAPTION", "WS_MINIMIZEBOX", "WS_MAXIMIZEBOX",
                              "WS_SYSMENU"}]
  /\ UNCHANGED recorderVars

\* The window after UpdateTransparencyForMousePosition.
UpdateTransparencyForMousePosition(w) ==
  IF ~w.click_through_enabled THEN w
  ELSE IF w.mouse.inWindow /\ w.mouse.x >= w.mouse.width - VisibleWidth
    THEN IF w.is_transparent
           THEN [w EXCEPT !.exStyle = (w.exStyle \cup {"WS_EX_LAYERED"})
                                        \ {"WS_EX_TRANSPARENT"},
                          !.is_transparent = FALSE]
           ELSE w
    ELSE IF ~w.is_transparent
           THEN [w EXCEPT !.exStyle = w.exStyle
                                        \cup {"WS_EX_LAYERED", "WS_EX_TRANSPARENT"},
                          !.is_transparent = TRUE]
           ELSE w

\* The 30 ms timer elapses: a timer message is queued.
TimerElapses ==
  /\ win.mouse_poll_timer # 0 /\ ~win.pendingTick
  /\ win' = [win EXCEPT !.pendingTick = TRUE]
  /\ UNCHANGED recorderVars

\* The queued timer message is dispatched (possibly after KillTimer).
MousePollTimerProc ==
  /\ win.pendingTick
  /\ win' = IF win.click_through_enabled
              THEN UpdateTransparencyForMousePosition(
                     [win EXCEPT !.pendingTick = FALSE])
              ELSE [win EXCEPT !.pendingTick = FALSE]
  /\ UNCHANGED recorderVars

\* The user moves the cursor or the window is resized.
MouseMoves ==
  /\ \E i \in BOOLEAN, x \in MouseXs, w \in Widths :
       win' = [win EXCEPT !.mouse = [inWindow |-> i, x |-> x, width |-> w]]
  /\ UNCHANGED recorderVars

NextWindow ==
  \/ \E enabled \in BOOLEAN : SetClickThroughEnabled(enabled)
  \/ RestoreNormalWindowStyle
  \/ \E frameless \in BOOLEAN : SetFrameless(frameless)
  \/ TimerElapses
  \/ MousePollTimerProc
  \/ MouseMoves

SpecWindow == Init /\ [][NextWindow]_vars

Transparent == "WS_EX_TRANSPARENT" \in win.exStyle

\* C23: is_transparent_ equals whether WS_EX_TRANSPARENT is set on the
\* window, the poll timer is armed only while click_through_enabled_ is
\* true, and SetClickThroughEnabled(false) leaves the window not transparent.
C23_WindowConsistent ==
  /\ [](/\ win.is_transparent = Transparent
        /\ win.mouse_poll_timer # 0 => win.click_through_enabled)
  /\ [][SetClickThroughEnabled(FALSE) => ~Transparent']_vars

\* What holds of the timer and of the disabled window, the cached flag aside.
TimerAndDisableConsistent ==
  /\ [](/\ win.mouse_poll_timer # 0 => win.click_through_enabled
        /\ ~win.click_through_enabled => ~Transparent)
  /\ [][SetClickThroughEnabled(FALSE) => ~Transparent']_vars

====
